---- MODULE Spec2Model ----
(***************************************************************************)
(* Model of lion_core.generic.pile.Pile: an ordered, identity-indexed      *)
(* collection made of a key->element mapping (pile_, a Python dict, which  *)
(* keeps insertion order) and a Progression (order) giving the traversal   *)
(* sequence.                                                               *)
(*                                                                         *)
(* Progression, validate_order, to_list_type, SysUtil.get_id and Element   *)
(* live outside the modelled sources; their operators below follow the     *)
(* written description of Order (section 4.1) and of the keying rule.      *)
(*                                                                         *)
(* Python indices are 0-based and are kept 0-based in every argument; the  *)
(* operators convert to TLA+'s 1-based sequences internally.               *)
(***************************************************************************)
EXTENDS Integers, Sequences, FiniteSets, TLC

VARIABLES order, pile_, item_type, strict, last, iter, lock, async_lock, pc, loc

vars == <<order, pile_, item_type, strict, last, iter, lock, async_lock, pc, loc>>

----------------------------------------------------------------------------
(* Bounds *)

NumKeys == 3
MaxBatch == 2
MaxCalls == 1
MaxSeed == 1

Keys == 1..NumKeys

----------------------------------------------------------------------------
(* Elements: an identity key, a concrete class and an object identity.     *)
(* Class B is a proper subclass of A; C is an unrelated Observable class;  *)
(* "object" is not Observable.                                             *)

ClassOf(k) == IF k % 3 = 1 THEN "A" ELSE IF k % 3 = 2 THEN "B" ELSE "C"

IsObservable(c) == c \in {"A", "B", "C"}

IsSubclass(c, t) == c = t \/ (c = "B" /\ t = "A")

Elem(k, o) == [ln_id |-> k, cls |-> ClassOf(k), obj |-> o]

NotObservable == [ln_id |-> 0, cls |-> "object", obj |-> "orig"]

\* one object per key
Originals == {Elem(k, "orig") : k \in Keys}

\* plus a second object carrying key 1 (a rebuilt copy)
Elements == Originals \cup {Elem(1, "copy")}

Items == Elements \cup {NotObservable}

SeqsUpTo(S, n) == UNION {[1..m -> S] : m \in 0..n}

Batches == SeqsUpTo(Items, MaxBatch)

OriginalBatches == SeqsUpTo(Originals, MaxBatch)

KeyLists == SeqsUpTo(Keys, MaxBatch)

Range(s) == {s[i] : i \in 1..Len(s)}

NoDup(s) == \A i, j \in 1..Len(s) : i # j => s[i] # s[j]

Min(a, b) == IF a < b THEN a ELSE b

Raise(e) == [kind |-> "raise", err |-> e]

Return(v) == [kind |-> "return", val |-> v]

Undefined == "LN_UNDEFINED"

----------------------------------------------------------------------------
(* Python dict, as the sequence of its values in insertion order (the key  *)
(* of a value is its ln_id).                                               *)

DictKeys(d) == [i \in 1..Len(d) |-> d[i].ln_id]

DictHas(d, k) == \E i \in 1..Len(d) : d[i].ln_id = k

DictGet(d, k) == d[CHOOSE i \in 1..Len(d) : d[i].ln_id = k]

\* d[e.ln_id] = e : an existing key keeps its position, a new key goes last
DictSet(d, e) ==
    IF DictHas(d, e.ln_id)
    THEN [i \in 1..Len(d) |-> IF d[i].ln_id = e.ln_id THEN e ELSE d[i]]
    ELSE Append(d, e)

\* d.pop(k) for a key that is present
DictPop(d, k) == SelectSeq(d, LAMBDA e : e.ln_id # k)

RECURSIVE DictUpdate(_, _)
DictUpdate(d, other) ==
    IF other = <<>> THEN d
    ELSE DictUpdate(DictSet(d, Head(other)), Tail(other))

----------------------------------------------------------------------------
(* Order (Progression)                                                     *)

OrderContains(o, k) == k \in Range(o)

\* order[i] for an integer index
OrderGetIndex(o, i) ==
    IF i >= 0 /\ i < Len(o) THEN Return(o[i + 1]) ELSE Raise("IndexError")

\* order[a:b]
OrderGetSlice(o, a, b) == SubSeq(o, Min(a, Len(o)) + 1, Min(b, Len(o)))

\* order[i] = keys : a scalar index takes exactly one key
OrderSetIndex(o, i, keys) ==
    IF i >= 0 /\ i < Len(o) /\ Len(keys) = 1
    THEN [ok |-> TRUE, order |-> [o EXCEPT ![i + 1] = keys[1]]]
    ELSE [ok |-> FALSE, order |-> o]

\* order[a:b] = keys : splice
OrderSetSlice(o, a, b, keys) ==
    LET lo == Min(a, Len(o))
        hi == IF Min(b, Len(o)) < lo THEN lo ELSE Min(b, Len(o))
    IN  SubSeq(o, 1, lo) \o keys \o SubSeq(o, hi + 1, Len(o))

\* order.insert(i, keys) : before position i, failing on a key already there
OrderInsert(o, i, keys) ==
    IF \E j \in 1..Len(keys) : keys[j] \in Range(o)
    THEN [ok |-> FALSE, order |-> o]
    ELSE LET at == Min(i, Len(o))
         IN  [ok |-> TRUE,
              order |-> SubSeq(o, 1, at) \o keys \o SubSeq(o, at + 1, Len(o))]

\* order.remove(k) : first occurrence, failing when absent
OrderRemove(o, k) ==
    IF k \in Range(o)
    THEN LET at == CHOOSE i \in 1..Len(o) :
                       o[i] = k /\ \A j \in 1..(i - 1) : o[j] # k
         IN  [ok |-> TRUE, order |-> SubSeq(o, 1, at - 1) \o SubSeq(o, at + 1, Len(o))]
    ELSE [ok |-> FALSE, order |-> o]

\* order.append(keys) : at the tail, skipping keys already present
RECURSIVE OrderAppend(_, _)
OrderAppend(o, keys) ==
    IF keys = <<>> THEN o
    ELSE OrderAppend(IF Head(keys) \in Range(o) THEN o ELSE Append(o, Head(keys)),
                     Tail(keys))

\* order += keys : concatenation
OrderConcat(o, keys) == o \o keys

\* validate_order / SysUtil.get_id : a collection resolves, member by member,
\* to the members' identity keys
validate_order(items) == [i \in 1..Len(items) |-> items[i].ln_id]

----------------------------------------------------------------------------
(* Pile: private methods, as functions of the Pile p =                     *)
(* [order, pile_, item_type, strict] returning the new order, the new     *)
(* mapping and the outcome (ret) of the call.                              *)

Out(o, d, r) == [order |-> o, pile_ |-> d, ret |-> r]

\* a type test that takes a subclass in strict mode too
TypeAllowedLoose(types, isStrict, c) == \E t \in types : IsSubclass(c, t)

\* the type test of _validate_pile when item_type is set
TypeAllowed(types, isStrict, c) ==
    IF isStrict THEN c \in types
    ELSE \E t \in types : IsSubclass(c, t)

\* the loop of _validate_pile over a non-empty value
RECURSIVE ValidateLoop(_, _, _, _)
ValidateLoop(types, isStrict, value, result) ==
    IF value = <<>> THEN [ok |-> TRUE, err |-> "", dict |-> result]
    ELSE LET i == Head(value) IN
         IF types # {}
         THEN IF ~ TypeAllowed(types, isStrict, i.cls)
              THEN [ok |-> FALSE, err |-> "LionTypeError", dict |-> <<>>]
              ELSE ValidateLoop(types, isStrict, Tail(value), DictSet(result, i))
         ELSE IF ~ IsObservable(i.cls)
              THEN [ok |-> FALSE, err |-> "LionValueError", dict |-> <<>>]
              ELSE ValidateLoop(types, isStrict, Tail(value), DictSet(result, i))

_validate_pile(p, value) ==
    IF value = <<>> THEN [ok |-> TRUE, err |-> "", dict |-> <<>>]
    ELSE ValidateLoop(p.item_type, p.strict, value, <<>>)

\* _validate_order: no order (or an empty one) gives the mapping's key sequence
_validate_order(d, value) ==
    IF value = <<>> THEN [ok |-> TRUE, order |-> DictKeys(d)]
    ELSE IF Cardinality(Range(value)) # Len(value) THEN [ok |-> FALSE, order |-> <<>>]
    ELSE IF Cardinality(Range(value)) # Len(d) THEN [ok |-> FALSE, order |-> <<>>]
    ELSE IF \E k \in Range(value) : ~ DictHas(d, k) THEN [ok |-> FALSE, order |-> <<>>]
    ELSE [ok |-> TRUE, order |-> value]

\* Pile(items, item_type, order, strict); an absent order is <<>>
NewPile(items, types, ord, isStrict) ==
    LET v == _validate_pile([item_type |-> types, strict |-> isStrict], items)
        o == _validate_order(v.dict, ord)
    IN  IF ~ v.ok THEN [ok |-> FALSE, err |-> v.err]
        ELSE IF ~ o.ok THEN [ok |-> FALSE, err |-> "LionValueError"]
        ELSE [ok |-> TRUE, err |-> "",
              pile |-> [order |-> o.order, pile_ |-> v.dict,
                        item_type |-> types, strict |-> isStrict]]

\* the order argument of the constructor: left out (None) or a key sequence
NoOrder == [given |-> FALSE, keys |-> <<>>]

OrderArgs == {NoOrder} \cup {[given |-> TRUE, keys |-> ks] : ks \in KeyLists}

\* Pile(items, item_type, order, strict): _validate_order tests `not value`,
\* which None and an empty sequence both pass
__init__(items, types, ord, isStrict) == NewPile(items, types, ord.keys, isStrict)

keys(p) == p.order

\* values(): [self.pile_[key] for key in self.order]
values(p) ==
    IF \E i \in 1..Len(p.order) : ~ DictHas(p.pile_, p.order[i])
    THEN Raise("KeyError")
    ELSE Return([i \in 1..Len(p.order) |-> DictGet(p.pile_, p.order[i])])

\* the removal loop of _pop: order.remove(k) then pile_.pop(k), key by key
RECURSIVE PopLoop(_, _, _, _)
PopLoop(o, d, ks, result) ==
    IF ks = <<>> THEN [ok |-> TRUE, order |-> o, pile_ |-> d, result |-> result]
    ELSE LET r == OrderRemove(o, Head(ks)) IN
         IF ~ r.ok THEN [ok |-> FALSE, order |-> o, pile_ |-> d, result |-> result]
         ELSE IF ~ DictHas(d, Head(ks))
              THEN [ok |-> FALSE, order |-> r.order, pile_ |-> d, result |-> result]
              ELSE PopLoop(r.order, DictPop(d, Head(ks)), Tail(ks),
                           Append(result, DictGet(d, Head(ks))))

\* a miss that raises whatever default is supplied
MissRaises(default) == Raise("ItemNotFoundError")

\* the outcome of a miss: the default when one is supplied
Miss(default) ==
    IF default = Undefined THEN Raise("ItemNotFoundError") ELSE Return(default)

\* a key that is no index, slice, identity key or collection of identity keys
\* (a float, an object without an identity)
OtherKey == [t |-> "other"]

\* SysUtil.get_id / validate_order given such a key
get_id_other == Raise("LionTypeError")

\* _pop(key, default); key is [t: "int", i], [t: "slice", a, b], [t: "ids", ids]
\* or OtherKey, whose failure in validate_order the except clause takes as a miss
_pop(p, key, default) ==
    IF key.t = "other" THEN Out(p.order, p.pile_, Miss(default))
    ELSE IF key.t \in {"int", "slice"}
    THEN LET got == IF key.t = "int" THEN OrderGetIndex(p.order, key.i)
                    ELSE Return(OrderGetSlice(p.order, key.a, key.b))
         IN  IF got.kind = "raise" THEN Out(p.order, p.pile_, Miss(default))
             ELSE LET pops == IF key.t = "int" THEN <<got.val>> ELSE got.val
                      l == PopLoop(p.order, p.pile_, pops, <<>>)
                      made == NewPile(l.result, p.item_type, <<>>, FALSE)
                  IN  IF ~ l.ok \/ l.result = <<>>
                      THEN Out(l.order, l.pile_, Miss(default))
                      ELSE IF Len(l.result) > 1
                      THEN IF made.ok THEN Out(l.order, l.pile_, Return(made.pile))
                           ELSE Out(l.order, l.pile_, Miss(default))
                      ELSE Out(l.order, l.pile_, Return(l.result[1]))
    ELSE LET l == PopLoop(p.order, p.pile_, key.ids, <<>>)
             made == NewPile(l.result, p.item_type, key.ids, FALSE)
         IN  IF ~ l.ok \/ l.result = <<>>
             THEN Out(l.order, l.pile_, Miss(default))
             ELSE IF Len(l.result) = 1
             THEN Out(l.order, l.pile_, Return(l.result[1]))
             ELSE IF made.ok THEN Out(l.order, l.pile_, Return(made.pile))
                  ELSE Out(l.order, l.pile_, Miss(default))

\* item in self, for one item
Contains(p, item) == OrderContains(p.order, item.ln_id)

\* _remove(item): the membership test, then self.pop(item)
_remove(p, item) ==
    IF Contains(p, item) THEN
        LET r == _pop(p, [t |-> "ids", ids |-> validate_order(<<item>>)], Undefined)
        IN  IF r.ret.kind = "raise" THEN r ELSE Out(r.order, r.pile_, Return("None"))
    ELSE Out(p.order, p.pile_, Raise("ItemNotFoundError"))

\* an _include that extends Order with every incoming key
IncludeNoSkip(p, item) ==
    LET v == _validate_pile(p, item) IN
    IF ~ v.ok THEN Out(p.order, p.pile_, Raise(v.err))
    ELSE Out(OrderConcat(p.order, DictKeys(v.dict)), DictUpdate(p.pile_, v.dict),
             Return("None"))

\* an _include that takes the valid elements of a batch it rejects
IncludePartial(p, item) ==
    LET v == _validate_pile(p, item)
        good == SelectSeq(item, LAMBDA i : _validate_pile(p, <<i>>).ok)
        g == _validate_pile(p, good)
    IN  IF v.ok
        THEN Out(OrderAppend(p.order, DictKeys(v.dict)), DictUpdate(p.pile_, v.dict),
                 Return("None"))
        ELSE Out(OrderAppend(p.order, DictKeys(g.dict)), DictUpdate(p.pile_, g.dict),
                 Raise(v.err))

\* _include(item)
_include(p, item) ==
    LET v == _validate_pile(p, item)
        item_order == SelectSeq(DictKeys(v.dict), LAMBDA i : ~ OrderContains(p.order, i))
    IN  IF ~ v.ok THEN Out(p.order, p.pile_, Raise(v.err))
        ELSE Out(OrderAppend(p.order, item_order), DictUpdate(p.pile_, v.dict),
                 Return("None"))

\* _exclude(item)
_exclude(p, item) ==
    LET exclude_list == SelectSeq(item, LAMBDA i : Contains(p, i))
        r == _pop(p, [t |-> "ids", ids |-> validate_order(exclude_list)], Undefined)
    IN  IF exclude_list # <<>>
        THEN IF r.ret.kind = "raise" THEN r ELSE Out(r.order, r.pile_, Return("None"))
        ELSE Out(p.order, p.pile_, Return("None"))

\* _clear()
_clear(p) == Out(<<>>, <<>>, Return("None"))

\* _update(other) -> include(other)
_update(p, other) == _include(p, other)

\* an _insert that ignores the index and the keys already there
InsertAnywhere(p, index, item) == _include(p, item)

\* _insert(index, item)
_insert(p, index, item) ==
    LET v == _validate_pile(p, item)
        item_order == DictKeys(v.dict)
        ins == OrderInsert(p.order, index, item_order)
    IN  IF ~ v.ok THEN Out(p.order, p.pile_, Raise(v.err))
        ELSE IF \E i \in Range(item_order) : OrderContains(p.order, i)
        THEN Out(p.order, p.pile_, Raise("ItemExistsError"))
        ELSE IF ~ ins.ok THEN Out(p.order, p.pile_, Raise("ItemExistsError"))
        ELSE Out(ins.order, DictUpdate(p.pile_, v.dict), Return("None"))

\* for i in delete_order: self.pile_.pop(i)
RECURSIVE DeleteLoop(_, _)
DeleteLoop(d, ks) ==
    IF ks = <<>> THEN [ok |-> TRUE, pile_ |-> d]
    ELSE IF ~ DictHas(d, Head(ks)) THEN [ok |-> FALSE, pile_ |-> d]
    ELSE DeleteLoop(DictPop(d, Head(ks)), Tail(ks))

\* an index/slice branch that fills the mapping and then fails
SetItemSpanEager(p, key, item_dict) ==
    Out(p.order, DictUpdate(p.pile_, item_dict), Raise("ValueError"))

\* the index/slice branch of _setitem, after validation and the collision test
SetItemSpan(p, key, item_dict) ==
    LET item_order == DictKeys(item_dict)
        got == IF key.t = "int" THEN OrderGetIndex(p.order, key.i)
               ELSE Return(OrderGetSlice(p.order, key.a, key.b))
        delete_order == IF key.t = "int" THEN <<got.val>> ELSE got.val
        set == IF key.t = "int" THEN OrderSetIndex(p.order, key.i, item_order)
               ELSE [ok |-> TRUE,
                     order |-> OrderSetSlice(p.order, key.a, key.b, item_order)]
        del == DeleteLoop(p.pile_, delete_order)
    IN  IF got.kind = "raise" THEN Out(p.order, p.pile_, Raise("ValueError"))
        ELSE IF ~ set.ok THEN Out(p.order, p.pile_, Raise("ValueError"))
        ELSE IF ~ del.ok THEN Out(set.order, del.pile_, Raise("ValueError"))
        ELSE Out(set.order, DictUpdate(del.pile_, item_dict), Return("None"))

\* the identity-key branch of _setitem, after validation and the collision test
SetItemKeys(p, key, item_dict) ==
    LET item_order == DictKeys(item_dict) IN
    IF key.t = "other"
    THEN IF Len(item_order) # 1 THEN Out(p.order, p.pile_, Raise("KeyError"))
         ELSE Out(p.order, p.pile_, get_id_other)
    ELSE IF key.ids = <<>> THEN Out(p.order, p.pile_, Raise("IndexError"))
    ELSE IF Len(key.ids) # Len(item_order) THEN Out(p.order, p.pile_, Raise("KeyError"))
    ELSE IF \E k \in Range(key.ids) : k \notin Range(item_order)
    THEN Out(p.order, p.pile_, Raise("KeyError"))
    ELSE Out(OrderConcat(p.order, key.ids), DictUpdate(p.pile_, item_dict),
             Return("None"))

\* _setitem(key, item)
_setitem(p, key, item) ==
    LET v == _validate_pile(p, item) IN
    IF ~ v.ok THEN Out(p.order, p.pile_, Raise(v.err))
    ELSE IF \E i \in Range(DictKeys(v.dict)) : OrderContains(p.order, i)
    THEN Out(p.order, p.pile_, Raise("ItemExistsError"))
    ELSE IF key.t \in {"int", "slice"} THEN SetItemSpan(p, key, v.dict)
    ELSE SetItemKeys(p, key, v.dict)

\* _getitem(key) for an index, a slice, an identity key or OtherKey, whose
\* failure in get_id the except clause turns into ItemNotFoundError
_getitem(p, key) ==
    IF key.t = "other" THEN Raise("ItemNotFoundError")
    ELSE IF key.t = "int"
    THEN LET got == OrderGetIndex(p.order, key.i) IN
         IF got.kind = "raise" \/ ~ DictHas(p.pile_, got.val)
         THEN Raise("ItemNotFoundError")
         ELSE Return(DictGet(p.pile_, got.val))
    ELSE IF key.t = "slice"
    THEN LET result_ids == OrderGetSlice(p.order, key.a, key.b)
             made == NewPile([i \in 1..Len(result_ids) |->
                                 DictGet(p.pile_, result_ids[i])],
                             p.item_type, <<>>, FALSE)
         IN  IF \E i \in Range(result_ids) : ~ DictHas(p.pile_, i)
             THEN Raise("ItemNotFoundError")
             ELSE IF ~ made.ok THEN Raise("ItemNotFoundError")
             ELSE Return(made.pile)
    ELSE IF DictHas(p.pile_, key.id) THEN Return(DictGet(p.pile_, key.id))
         ELSE Raise("ItemNotFoundError")

\* _get(key, default): self[key] for an index or a slice; for an identity key
\* ([t: "id", id]) or a collection of them ([t: "ids", ids]) self[k] key by key;
\* the default on a miss
_get(p, key, default) ==
    IF key.t = "other" THEN Miss(default)
    ELSE IF key.t \in {"int", "slice"}
    THEN LET r == _getitem(p, key) IN
         IF r.kind = "raise" THEN Miss(default) ELSE r
    ELSE LET ids == IF key.t = "id" THEN <<key.id>> ELSE key.ids
             made == NewPile([i \in 1..Len(ids) |-> DictGet(p.pile_, ids[i])],
                             p.item_type, <<>>, FALSE)
         IN  IF ids = <<>> \/ \E i \in 1..Len(ids) : ~ DictHas(p.pile_, ids[i])
             THEN Miss(default)
             ELSE IF Len(ids) = 1 THEN Return(DictGet(p.pile_, ids[1]))
             ELSE IF made.ok THEN Return(made.pile)
             ELSE Miss(default)

\* Element.to_dict / Element.from_dict: the serialized form keeps the identity
\* key and the class; rebuilding makes a new object
Element_to_dict(e) == [ln_id |-> e.ln_id, lion_class |-> e.cls]

Element_from_dict(s) == [ln_id |-> s.ln_id, cls |-> s.lion_class, obj |-> "copy"]

\* the serializer of pile_: [i.to_dict() for i in value.values()]
to_dict(p) ==
    [pile_ |-> [i \in 1..Len(p.pile_) |-> Element_to_dict(p.pile_[i])],
     strict |-> p.strict]

\* from_dict(data) / load(data)
from_dict(data) ==
    NewPile([i \in 1..Len(data.pile_) |-> Element_from_dict(data.pile_[i])],
            {}, <<>>, data.strict)

load(data) == from_dict(data)

\* __isub__(other) for one element: a copy pops it, then self.remove(other)
__isub__(p, other) ==
    LET vs == values(p)
        made == NewPile(vs.val, p.item_type, p.order, FALSE)
        popped == _pop(made.pile, [t |-> "ids", ids |-> validate_order(<<other>>)],
                       Undefined)
    IN  IF vs.kind = "raise" THEN Out(p.order, p.pile_, vs)
        ELSE IF ~ made.ok THEN Out(p.order, p.pile_, Raise(made.err))
        ELSE IF popped.ret.kind = "raise" THEN Out(p.order, p.pile_, popped.ret)
        ELSE _remove(p, other)

----------------------------------------------------------------------------
(* Pile: public synchronous methods                                        *)

__setitem__(p, key, item) == _setitem(p, key, item)

pop(p, key, default) == _pop(p, key, default)

remove(p, item) == _remove(p, item)

include(p, item) == _include(p, item)

exclude(p, item) == _exclude(p, item)

clear(p) == _clear(p)

update(p, other) == _update(p, other)

insert(p, index, item) == _insert(p, index, item)

\* an append that puts the keys first
AppendFirst(p, item) == _insert(p, 0, item)

\* append(item) -> self.update(item)
append(p, item) == update(p, item)

get(p, key, default) == _get(p, key, default)

__iadd__(p, other) == include(p, other)

\* size(): len(self.order)
size(p) == Len(p.order)

\* __len__(): len(self.pile_)
__len__(p) == Len(p.pile_)

\* is_empty(): len(self.order) == 0
is_empty(p) == Len(p.order) = 0

\* a dump that clears before it exports
DumpCleared(p, doClear) ==
    LET c == IF doClear THEN clear(p) ELSE Out(p.order, p.pile_, Return("None"))
    IN  Out(c.order, c.pile_,
            Return(to_dict([p EXCEPT !.order = c.order, !.pile_ = c.pile_])))

\* dump(clear): result = self.to_dict(); if clear: self.clear(); return result
dump(p, doClear) ==
    LET result == to_dict(p)
        c == IF doClear THEN clear(p) ELSE Out(p.order, p.pile_, Return("None"))
    IN  Out(c.order, c.pile_, Return(result))

\* __add__(other): a new Pile from values() and order, then result.include(other);
\* the outcome carries the receiver's order and mapping and returns the new Pile
__add__(p, other) ==
    LET vs == values(p)
        made == NewPile(vs.val, p.item_type, p.order, FALSE)
        inc == include(made.pile, other)
    IN  IF vs.kind = "raise" THEN Out(p.order, p.pile_, vs)
        ELSE IF ~ made.ok THEN Out(p.order, p.pile_, Raise(made.err))
        ELSE IF inc.ret.kind = "raise" THEN Out(p.order, p.pile_, inc.ret)
        ELSE Out(p.order, p.pile_,
                 Return([made.pile EXCEPT !.order = inc.order, !.pile_ = inc.pile_]))

\* __sub__(other): a new Pile from values() and order, then result.pop(other)
__sub__(p, other) ==
    LET vs == values(p)
        made == NewPile(vs.val, p.item_type, p.order, FALSE)
        popped == pop(made.pile, [t |-> "ids", ids |-> validate_order(other)], Undefined)
    IN  IF vs.kind = "raise" THEN Out(p.order, p.pile_, vs)
        ELSE IF ~ made.ok THEN Out(p.order, p.pile_, Raise(made.err))
        ELSE IF popped.ret.kind = "raise" THEN Out(p.order, p.pile_, popped.ret)
        ELSE Out(p.order, p.pile_,
                 Return([made.pile EXCEPT !.order = popped.order,
                                          !.pile_ = popped.pile_]))

----------------------------------------------------------------------------
(* Pile: public asynchronous methods, run alone to completion              *)

\* item in self, for a batch: a batch is a member when it is not empty and
\* every one of its items is
ContainsAll(p, item) ==
    item # <<>> /\ \A i \in 1..Len(item) : Contains(p, item[i])

asetitem(p, key, item) == _setitem(p, key, item)

apop(p, key, default) == _pop(p, key, default)

aremove(p, item) == _remove(p, item)

\* ainclude(item): self._include(item), then LionTypeError if item not in self
ainclude(p, item) ==
    LET r == _include(p, item) IN
    IF r.ret.kind = "raise" THEN r
    ELSE IF ~ ContainsAll([p EXCEPT !.order = r.order, !.pile_ = r.pile_], item)
    THEN Out(r.order, r.pile_, Raise("LionTypeError"))
    ELSE r

aexclude(p, item) == _exclude(p, item)

aclear(p) == _clear(p)

aupdate(p, other) == _update(p, other)

\* adump(clear): runs self.dump(clear=clear) and returns nothing
adump(p, doClear) ==
    LET d == dump(p, doClear) IN
    IF d.ret.kind = "raise" THEN d ELSE Out(d.order, d.pile_, Return("None"))

----------------------------------------------------------------------------
(* State                                                                   *)

Self == [order |-> order, pile_ |-> pile_, item_type |-> item_type, strict |-> strict]

\* the (item_type, strict) pairs a Pile is constructed with
Configs == {<<{}, FALSE>>, <<{"A"}, TRUE>>, <<{"A"}, FALSE>>}

Threads == {"t1", "t2"}

\* no loop over the Pile is in flight
IdleIter == [status |-> "idle", mode |-> "sync", snap |-> <<>>, pos |-> 0, yielded |-> <<>>]

\* the locals of a thread that has made no call
NoLoc == [op |-> "", surface |-> "sync", item |-> <<>>, key |-> <<>>, idx |-> 0,
          ks |-> <<>>, naps |-> 0, out |-> "", calls |-> 0]

Indices == 0..NumKeys

IntKeys == {[t |-> "int", i |-> i] : i \in Indices}

SliceKeys == {[t |-> "slice", a |-> s[1], b |-> s[2]] :
                 s \in {x \in Indices \X Indices : x[1] <= x[2]}}

IdKeys == {[t |-> "ids", ids |-> ks] : ks \in KeyLists}

AllKeys == IntKeys \cup SliceKeys \cup IdKeys

Defaults == {Undefined, "None"}

\* how the argument of a call stands to the Pile it is given to
ItemCase(p, item) ==
    IF \E i \in 1..Len(item) :
          /\ item[i].cls \notin p.item_type
          /\ \E t \in p.item_type : IsSubclass(item[i].cls, t)
    THEN "subtype"
    ELSE IF \E i, j \in 1..Len(item) : i # j /\ item[i] = item[j] /\ Contains(p, item[i])
    THEN "twice"
    ELSE IF item # <<>> /\ \A i \in 1..Len(item) : Contains(p, item[i])
    THEN "present"
    ELSE IF item # <<>> /\ \A i \in 1..Len(item) : ~ Contains(p, item[i])
    THEN "absent"
    ELSE "mixed"

\* the calls whose outcome is kept in last
Tracked == {"_include", "_exclude"}

Untracked == [op |-> "", case |-> "", kind |-> "", err |-> ""]

\* what last keeps of a call
Observe(op, case, ret) ==
    IF op \in Tracked
    THEN [op |-> op, case |-> case, kind |-> ret.kind,
          err |-> IF ret.kind = "raise" THEN ret.err ELSE ""]
    ELSE Untracked

Frame == UNCHANGED <<item_type, strict, iter, lock, async_lock, pc, loc>>

Init ==
    /\ \E c \in Configs, items \in OriginalBatches, ord \in KeyLists :
          LET made == NewPile(items, c[1], ord, c[2]) IN
          /\ made.ok
          /\ order = made.pile.order
          /\ pile_ = made.pile.pile_
          /\ item_type = c[1]
          /\ strict = c[2]
    /\ last = Untracked
    /\ iter = IdleIter
    /\ lock = "free"
    /\ async_lock = "free"
    /\ pc = [t \in Threads |-> "idle"]
    /\ loc = [t \in Threads |-> NoLoc]

SetItem == \E key \in AllKeys, item \in OriginalBatches :
    LET r == __setitem__(Self, key, item) IN
    /\ order' = r.order
    /\ pile_' = r.pile_
    /\ last' = Observe("_setitem", ItemCase(Self, item), r.ret)
    /\ Frame

Pop == \E key \in AllKeys, default \in Defaults :
    LET r == pop(Self, key, default) IN
    /\ order' = r.order
    /\ pile_' = r.pile_
    /\ last' = Observe("_pop", key.t, r.ret)
    /\ Frame

Remove == \E item \in Originals :
    LET r == remove(Self, item) IN
    /\ order' = r.order
    /\ pile_' = r.pile_
    /\ last' = Observe("_remove", ItemCase(Self, <<item>>), r.ret)
    /\ Frame

Include == \E item \in OriginalBatches :
    LET r == include(Self, item) IN
    /\ order' = r.order
    /\ pile_' = r.pile_
    /\ last' = Observe("_include", ItemCase(Self, item), r.ret)
    /\ Frame

Exclude == \E item \in OriginalBatches :
    LET r == exclude(Self, item) IN
    /\ order' = r.order
    /\ pile_' = r.pile_
    /\ last' = Observe("_exclude", ItemCase(Self, item), r.ret)
    /\ Frame

Clear ==
    LET r == clear(Self) IN
    /\ order' = r.order
    /\ pile_' = r.pile_
    /\ last' = Observe("_clear", "", r.ret)
    /\ Frame

Update == \E other \in OriginalBatches :
    LET r == update(Self, other) IN
    /\ order' = r.order
    /\ pile_' = r.pile_
    /\ last' = Observe("_include", ItemCase(Self, other), r.ret)
    /\ Frame

Insert == \E index \in Indices, item \in OriginalBatches :
    LET r == insert(Self, index, item) IN
    /\ order' = r.order
    /\ pile_' = r.pile_
    /\ last' = Observe("_insert", ItemCase(Self, item), r.ret)
    /\ Frame

AppendItem == \E item \in OriginalBatches :
    LET r == append(Self, item) IN
    /\ order' = r.order
    /\ pile_' = r.pile_
    /\ last' = Observe("_include", ItemCase(Self, item), r.ret)
    /\ Frame

IAdd == \E other \in OriginalBatches :
    LET r == __iadd__(Self, other) IN
    /\ order' = r.order
    /\ pile_' = r.pile_
    /\ last' = Observe("_include", ItemCase(Self, other), r.ret)
    /\ Frame

ISub == \E other \in Originals :
    LET r == __isub__(Self, other) IN
    /\ order' = r.order
    /\ pile_' = r.pile_
    /\ last' = Observe("__isub__", ItemCase(Self, <<other>>), r.ret)
    /\ Frame

Next ==
    \/ SetItem
    \/ Pop
    \/ Remove
    \/ Include
    \/ Exclude
    \/ Clear
    \/ Update
    \/ Insert
    \/ AppendItem
    \/ IAdd
    \/ ISub

Spec == Init /\ [][Next]_vars

----------------------------------------------------------------------------
(* Iteration: __iter__ and __aiter__ copy the key order under their lock,  *)
(* then look each key up in the mapping when the consumer asks for the     *)
(* next element.  iter is the one generator in flight.                     *)

\* the snapshot: current_order = list(self.order)
__iter__(p) ==
    [status |-> "active", mode |-> "sync", snap |-> p.order, pos |-> 0, yielded |-> <<>>]

__aiter__(p) ==
    [status |-> "active", mode |-> "async", snap |-> p.order, pos |-> 0, yielded |-> <<>>]

\* a loop that walks the live Order instead of the snapshot
LiveKey(p, it) ==
    IF it.pos < Len(p.order) THEN p.order[it.pos + 1] ELSE it.snap[it.pos + 1]

\* for key in current_order: the key the loop is at
LoopKey(p, it) == it.snap[it.pos + 1]

\* yield self.pile_[key], or the end of the loop
Resume(p, it) ==
    IF it.pos >= Len(it.snap) THEN [it EXCEPT !.status = "done"]
    ELSE IF ~ DictHas(p.pile_, LoopKey(p, it)) THEN [it EXCEPT !.status = "raised"]
    ELSE [it EXCEPT !.pos = it.pos + 1,
                    !.yielded = Append(it.yielded, DictGet(p.pile_, LoopKey(p, it)))]

\* __next__(): next(iter(self)), a new generator at every call
__next__(p) ==
    LET it == Resume(p, __iter__(p)) IN
    IF it.status = "done" THEN Raise("StopIteration")
    ELSE IF it.status = "raised" THEN Raise("KeyError")
    ELSE Return(it.yielded[1])

\* AsyncPileIterator.__anext__() of an iterator whose index is index
AsyncPileIterator_anext(p, index) ==
    IF index >= __len__(p) THEN Raise("StopAsyncIteration")
    ELSE LET k == OrderGetIndex(p.order, index) IN
         IF k.kind = "raise" THEN k
         ELSE _getitem(p, [t |-> "id", id |-> k.val])

\* __anext__(): anext(self.AsyncPileIterator(self)), a new iterator at index 0
\* at every call
__anext__(p) == AsyncPileIterator_anext(p, 0)

IterFrame ==
    UNCHANGED <<order, pile_, item_type, strict, last, lock, async_lock, pc, loc>>

\* for x in pile: the generator starts (a new loop may start once one is over)
IterStart ==
    /\ iter.status # "active"
    /\ lock = "free"
    /\ iter' = __iter__(Self)
    /\ IterFrame

\* async for x in pile
AIterStart ==
    /\ iter.status # "active"
    /\ iter' = __aiter__(Self)
    /\ IterFrame

IterNext ==
    /\ iter.status = "active"
    /\ iter.mode = "sync"
    /\ iter' = Resume(Self, iter)
    /\ IterFrame

AIterNext ==
    /\ iter.status = "active"
    /\ iter.mode = "async"
    /\ iter' = Resume(Self, iter)
    /\ IterFrame

\* calls made between two steps of the loop, each on one element
LoopFrame == UNCHANGED <<item_type, strict, last, iter, lock, async_lock, pc, loc>>

LoopInclude == \E e \in Originals :
    LET r == include(Self, <<e>>) IN
    /\ order' = r.order
    /\ pile_' = r.pile_
    /\ LoopFrame

LoopInsert == \E index \in Indices, e \in Originals :
    LET r == insert(Self, index, <<e>>) IN
    /\ order' = r.order
    /\ pile_' = r.pile_
    /\ LoopFrame

\* set_item under the element's own identity key
LoopSetItem == \E e \in Originals :
    LET r == __setitem__(Self, [t |-> "ids", ids |-> <<e.ln_id>>], <<e>>) IN
    /\ order' = r.order
    /\ pile_' = r.pile_
    /\ LoopFrame

LoopPop == \E key \in IntKeys, default \in Defaults :
    LET r == pop(Self, key, default) IN
    /\ order' = r.order
    /\ pile_' = r.pile_
    /\ LoopFrame

LoopRemove == \E e \in Originals :
    LET r == remove(Self, e) IN
    /\ order' = r.order
    /\ pile_' = r.pile_
    /\ LoopFrame

LoopExclude == \E e \in Originals :
    LET r == exclude(Self, <<e>>) IN
    /\ order' = r.order
    /\ pile_' = r.pile_
    /\ LoopFrame

LoopClear ==
    LET r == clear(Self) IN
    /\ order' = r.order
    /\ pile_' = r.pile_
    /\ LoopFrame

InitIter ==
    /\ Init
    /\ item_type = {}

NextIter ==
    \/ IterStart
    \/ AIterStart
    \/ IterNext
    \/ AIterNext
    \/ LoopInclude
    \/ LoopInsert
    \/ LoopSetItem
    \/ LoopPop
    \/ LoopRemove
    \/ LoopExclude
    \/ LoopClear

SpecIter == InitIter /\ [][NextIter]_vars

----------------------------------------------------------------------------
(* Threads calling the synchronous methods of one Pile.  A thread may be   *)
(* preempted between any two statements, so every statement that reads or  *)
(* writes order or pile_ is a step of its own.  lock is the blocking lock   *)
(* of @synchronized; pop, clear, insert and append carry the decorator,    *)
(* __setitem__, remove, include, exclude and update do not.                *)
(* Each call is given one element; set_item is keyed by an index or by the *)
(* element's own identity key, pop by an identity key.                     *)
(* loc[t] holds the locals of the call thread t is in: the method (op),    *)
(* the surface it belongs to, its arguments (item, key, idx), the keys it   *)
(* has collected (ks) and, once it has returned, its outcome (out).        *)

\* the keys of o are the keys of d, each once
Bijective(o, d) ==
    /\ Range(o) = Range(DictKeys(d))
    /\ NoDup(o)

Synchronized == {"pop", "clear", "insert", "append"}

ThreadOps == {"set_item", "set_item_id", "pop", "remove", "include", "exclude",
              "clear", "insert", "update", "append"}

ThreadIndices == {0, 1}

\* the first step of a call
Entry(op) ==
    IF op \in Synchronized THEN "acquire"
    ELSE IF op \in {"include", "update"} THEN "inc_check"
    ELSE IF op \in {"set_item", "set_item_id"} THEN "set_check"
    ELSE IF op = "remove" THEN "rem_check"
    ELSE "exc_check"

\* the first step inside the lock
Body(op) ==
    IF op \in {"clear", "dump_clear"} THEN "clr_dict"
    ELSE IF op = "insert" THEN "ins_check"
    ELSE IF op = "append" THEN "inc_check"
    ELSE IF op = "iter" THEN "iter_copy"
    ELSE "pop_order"

ItemDict(t) == _validate_pile(Self, loc[t].item)

ItemKey(t) == loc[t].item[1].ln_id

ThreadFrame == UNCHANGED <<item_type, strict, last, iter, async_lock>>

Goto(t, label) == pc' = [pc EXCEPT ![t] = label]

\* a call whose lock stays held when the body raises
FinishHolding(t, out) ==
    /\ pc' = [pc EXCEPT ![t] = IF out # "ok" THEN "idle"
                               ELSE IF lock = t THEN "release"
                               ELSE IF async_lock = t THEN "arelease"
                               ELSE "idle"]
    /\ loc' = [loc EXCEPT ![t].out = out]

\* the call ends, by return or by raise: the with-block, when there is one,
\* releases the blocking lock next, and the async with-block the cooperative one
Finish(t, out) ==
    /\ pc' = [pc EXCEPT ![t] = IF lock = t THEN "release"
                               ELSE IF async_lock = t THEN "arelease"
                               ELSE "idle"]
    /\ loc' = [loc EXCEPT ![t].out = out]

Call(t) ==
    /\ pc[t] = "idle"
    /\ loc[t].calls < MaxCalls
    /\ \E op \in ThreadOps, e \in Originals, idx \in ThreadIndices :
          /\ (op \notin {"insert", "set_item"}) => idx = 0
          /\ loc' = [loc EXCEPT ![t] =
                        [op |-> op, surface |-> "sync", item |-> <<e>>,
                         key |-> IF op = "set_item_id" THEN <<e.ln_id>> ELSE <<>>,
                         idx |-> idx, ks |-> <<>>, naps |-> 0, out |-> "",
                         calls |-> loc[t].calls + 1]]
          /\ Goto(t, Entry(op))
    /\ UNCHANGED <<order, pile_, lock>>
    /\ ThreadFrame

\* with self.lock: (threading.Lock, not reentrant)
Acquire(t) ==
    /\ pc[t] = "acquire"
    /\ lock = "free"
    /\ lock' = t
    /\ Goto(t, Body(loc[t].op))
    /\ UNCHANGED <<order, pile_, loc>>
    /\ ThreadFrame

Release(t) ==
    /\ pc[t] = "release"
    /\ lock' = "free"
    /\ Goto(t, IF async_lock = t THEN "arelease" ELSE "idle")
    /\ UNCHANGED <<order, pile_, loc>>
    /\ ThreadFrame

\* _include: validation and the membership tests that build item_order
IncCheck(t) ==
    /\ pc[t] = "inc_check"
    /\ IF ~ ItemDict(t).ok THEN Finish(t, ItemDict(t).err)
       ELSE /\ loc' = [loc EXCEPT ![t].ks =
                          SelectSeq(DictKeys(ItemDict(t).dict),
                                    LAMBDA i : ~ OrderContains(order, i))]
            /\ Goto(t, "inc_order")
    /\ UNCHANGED <<order, pile_, lock>>
    /\ ThreadFrame

\* self.order.append(item_order)
IncOrder(t) ==
    /\ pc[t] = "inc_order"
    /\ order' = OrderAppend(order, loc[t].ks)
    /\ Goto(t, "inc_dict")
    /\ UNCHANGED <<pile_, lock, loc>>
    /\ ThreadFrame

\* self.pile_.update(item_dict)
IncDict(t) ==
    /\ pc[t] = "inc_dict"
    /\ pile_' = DictUpdate(pile_, ItemDict(t).dict)
    /\ IF loc[t].surface = "async" /\ loc[t].op = "include"
       THEN Goto(t, "ainc_verify") /\ UNCHANGED loc
       ELSE Finish(t, "ok")
    /\ UNCHANGED <<order, lock>>
    /\ ThreadFrame

\* _insert: validation and the collision test
InsCheck(t) ==
    /\ pc[t] = "ins_check"
    /\ IF ~ ItemDict(t).ok THEN Finish(t, ItemDict(t).err)
       ELSE IF OrderContains(order, ItemKey(t)) THEN Finish(t, "ItemExistsError")
       ELSE /\ loc' = [loc EXCEPT ![t].ks = DictKeys(ItemDict(t).dict)]
            /\ Goto(t, "ins_order")
    /\ UNCHANGED <<order, pile_, lock>>
    /\ ThreadFrame

\* self.order.insert(index, item_order)
InsOrder(t) ==
    /\ pc[t] = "ins_order"
    /\ LET r == OrderInsert(order, loc[t].idx, loc[t].ks) IN
       IF r.ok THEN /\ order' = r.order
                    /\ Goto(t, "ins_dict")
                    /\ UNCHANGED loc
       ELSE /\ Finish(t, "ItemExistsError")
            /\ UNCHANGED order
    /\ UNCHANGED <<pile_, lock>>
    /\ ThreadFrame

InsDict(t) ==
    /\ pc[t] = "ins_dict"
    /\ pile_' = DictUpdate(pile_, ItemDict(t).dict)
    /\ Finish(t, "ok")
    /\ UNCHANGED <<order, lock>>
    /\ ThreadFrame

\* _setitem: validation and the collision test
SetCheck(t) ==
    /\ pc[t] = "set_check"
    /\ LET item_order == DictKeys(ItemDict(t).dict) IN
       IF ~ ItemDict(t).ok THEN Finish(t, ItemDict(t).err)
       ELSE IF \E i \in Range(item_order) : OrderContains(order, i)
       THEN Finish(t, "ItemExistsError")
       ELSE IF loc[t].op = "set_item" THEN Goto(t, "set_read") /\ UNCHANGED loc
       ELSE IF \/ Len(loc[t].key) # Len(item_order)
               \/ \E k \in Range(loc[t].key) : k \notin Range(item_order)
       THEN Finish(t, "KeyError")
       ELSE Goto(t, "set_concat") /\ UNCHANGED loc
    /\ UNCHANGED <<order, pile_, lock>>
    /\ ThreadFrame

\* delete_order = [self.order[key]]
SetRead(t) ==
    /\ pc[t] = "set_read"
    /\ LET got == OrderGetIndex(order, loc[t].idx) IN
       IF got.kind = "raise" THEN Finish(t, "ValueError")
       ELSE /\ loc' = [loc EXCEPT ![t].ks = <<got.val>>]
            /\ Goto(t, "set_order")
    /\ UNCHANGED <<order, pile_, lock>>
    /\ ThreadFrame

\* self.order[key] = item_order
SetOrder(t) ==
    /\ pc[t] = "set_order"
    /\ LET r == OrderSetIndex(order, loc[t].idx, <<ItemKey(t)>>) IN
       IF r.ok THEN /\ order' = r.order
                    /\ Goto(t, "set_pop")
                    /\ UNCHANGED loc
       ELSE /\ Finish(t, "ValueError")
            /\ UNCHANGED order
    /\ UNCHANGED <<pile_, lock>>
    /\ ThreadFrame

\* for i in delete_order: self.pile_.pop(i)
SetPop(t) ==
    /\ pc[t] = "set_pop"
    /\ LET del == DeleteLoop(pile_, loc[t].ks) IN
       /\ pile_' = del.pile_
       /\ IF del.ok THEN Goto(t, "set_dict") /\ UNCHANGED loc
          ELSE Finish(t, "ValueError")
    /\ UNCHANGED <<order, lock>>
    /\ ThreadFrame

\* self.order += key
SetConcat(t) ==
    /\ pc[t] = "set_concat"
    /\ order' = OrderConcat(order, loc[t].key)
    /\ Goto(t, "set_dict")
    /\ UNCHANGED <<pile_, lock, loc>>
    /\ ThreadFrame

SetDict(t) ==
    /\ pc[t] = "set_dict"
    /\ pile_' = DictUpdate(pile_, ItemDict(t).dict)
    /\ Finish(t, "ok")
    /\ UNCHANGED <<order, lock>>
    /\ ThreadFrame

\* _remove: if item in self, then self.pop(item)
RemCheck(t) ==
    /\ pc[t] = "rem_check"
    /\ IF Contains(Self, loc[t].item[1])
       THEN Goto(t, "acquire") /\ UNCHANGED loc
       ELSE Finish(t, "ItemNotFoundError")
    /\ UNCHANGED <<order, pile_, lock>>
    /\ ThreadFrame

\* _exclude: the membership tests, then self.pop(exclude_list) when one passed
ExcCheck(t) ==
    /\ pc[t] = "exc_check"
    /\ IF Contains(Self, loc[t].item[1])
       THEN Goto(t, "acquire") /\ UNCHANGED loc
       ELSE Finish(t, "ok")
    /\ UNCHANGED <<order, pile_, lock>>
    /\ ThreadFrame

\* _pop: self.order.remove(k)
PopOrder(t) ==
    /\ pc[t] = "pop_order"
    /\ LET r == OrderRemove(order, ItemKey(t)) IN
       IF r.ok THEN /\ order' = r.order
                    /\ Goto(t, "pop_dict")
                    /\ UNCHANGED loc
       ELSE /\ Finish(t, "ItemNotFoundError")
            /\ UNCHANGED order
    /\ UNCHANGED <<pile_, lock>>
    /\ ThreadFrame

\* a pop that returns the element and leaves its entry in the mapping
PopDictKeep(t) ==
    /\ pc[t] = "pop_dict"
    /\ IF DictHas(pile_, ItemKey(t))
       THEN UNCHANGED pile_ /\ Finish(t, "ok")
       ELSE UNCHANGED pile_ /\ Finish(t, "ItemNotFoundError")
    /\ UNCHANGED <<order, lock>>
    /\ ThreadFrame

\* _pop: self.pile_.pop(k)
PopDict(t) ==
    /\ pc[t] = "pop_dict"
    /\ IF DictHas(pile_, ItemKey(t))
       THEN pile_' = DictPop(pile_, ItemKey(t)) /\ Finish(t, "ok")
       ELSE UNCHANGED pile_ /\ Finish(t, "ItemNotFoundError")
    /\ UNCHANGED <<order, lock>>
    /\ ThreadFrame

\* _clear: self.pile_.clear()
ClrDict(t) ==
    /\ pc[t] = "clr_dict"
    /\ pile_' = <<>>
    /\ Goto(t, "clr_order")
    /\ UNCHANGED <<order, lock, loc>>
    /\ ThreadFrame

\* _clear: self.order.clear()
ClrOrder(t) ==
    /\ pc[t] = "clr_order"
    /\ order' = <<>>
    /\ Finish(t, "ok")
    /\ UNCHANGED <<pile_, lock>>
    /\ ThreadFrame

\* an ungated Pile constructed with each key once in its order
InitThreads ==
    /\ Init
    /\ item_type = {}
    /\ Bijective(order, pile_)

NextThreads ==
    \E t \in Threads :
        \/ Call(t)
        \/ Acquire(t)
        \/ Release(t)
        \/ IncCheck(t)
        \/ IncOrder(t)
        \/ IncDict(t)
        \/ InsCheck(t)
        \/ InsOrder(t)
        \/ InsDict(t)
        \/ SetCheck(t)
        \/ SetRead(t)
        \/ SetOrder(t)
        \/ SetPop(t)
        \/ SetConcat(t)
        \/ SetDict(t)
        \/ RemCheck(t)
        \/ ExcCheck(t)
        \/ PopOrder(t)
        \/ PopDict(t)
        \/ ClrDict(t)
        \/ ClrOrder(t)

SpecThreads == InitThreads /\ [][NextThreads]_vars

----------------------------------------------------------------------------
(* Tasks calling the asynchronous methods.  async_lock is the cooperative  *)
(* lock of @async_synchronized.  A task keeps the event loop until it      *)
(* awaits something that is not ready: the cooperative lock while another  *)
(* task holds it, or asyncio.sleep(0) in the asynchronous iterator; being  *)
(* cancelled reaches a task only where it is suspended.  The bodies are    *)
(* the private methods the threads step through; aremove and aexclude go   *)
(* on into the synchronous pop and take the blocking lock as well.         *)

AsyncOps == {"set_item", "set_item_id", "pop", "remove", "include", "exclude",
             "clear", "update", "aiter"}

\* the asynchronous calls made: one element each (a non-Observable among
\* them), and asetitem under a repeated identity key with two elements
AsyncCalls ==
    {[op |-> o, item |-> <<e>>, key |-> <<>>, idx |-> 0] :
        o \in {"pop", "remove", "include", "exclude", "update"},
        e \in Originals \cup {NotObservable}}
    \cup {[op |-> "set_item", item |-> <<e>>, key |-> <<>>, idx |-> i] :
             e \in Originals, i \in ThreadIndices}
    \cup {[op |-> "set_item_id", item |-> <<e>>, key |-> <<e.ln_id>>, idx |-> 0] :
             e \in Originals}
    \cup {[op |-> "set_item_id", item |-> <<Elem(1, "orig"), Elem(2, "orig")>>,
           key |-> <<1, 1>>, idx |-> 0]}
    \cup {[op |-> o, item |-> <<>>, key |-> <<>>, idx |-> 0] : o \in {"clear", "aiter"}}

\* the first step inside async with self.async_lock
AsyncBody(op) ==
    IF op \in {"include", "update"} THEN "inc_check"
    ELSE IF op \in {"set_item", "set_item_id"} THEN "set_check"
    ELSE IF op = "remove" THEN "rem_check"
    ELSE IF op = "exclude" THEN "exc_check"
    ELSE IF op = "clear" THEN "clr_dict"
    ELSE IF op = "aiter" THEN "aiter_copy"
    ELSE IF op \in {"dump", "dump_clear"} THEN "dump_export"
    ELSE "pop_order"

\* the task is not on the event loop: between calls, asleep in the iterator,
\* or waiting for the cooperative lock
Suspended(t) ==
    \/ pc[t] \in {"idle", "aiter_sleep"}
    \/ pc[t] = "aacquire" /\ async_lock \notin {"free", t}

\* the event loop can give task t its next step
Turn(t) == \A u \in Threads \ {t} : Suspended(u)

AsyncFrame == UNCHANGED <<order, pile_, lock, item_type, strict, last, iter>>

ACall(t) ==
    /\ pc[t] = "idle"
    /\ loc[t].calls < MaxCalls
    /\ \E c \in AsyncCalls :
          loc' = [loc EXCEPT ![t] =
                     [op |-> c.op, surface |-> "async", item |-> c.item,
                      key |-> c.key, idx |-> c.idx, ks |-> <<>>, naps |-> 0,
                      out |-> "", calls |-> loc[t].calls + 1]]
    /\ Goto(t, "aacquire")
    /\ UNCHANGED async_lock
    /\ AsyncFrame

\* a cooperative lock that is taken only when the blocking lock is free too
AAcquireBoth(t) ==
    /\ pc[t] = "aacquire"
    /\ async_lock = "free"
    /\ lock = "free"
    /\ async_lock' = t
    /\ Goto(t, AsyncBody(loc[t].op))
    /\ UNCHANGED loc
    /\ AsyncFrame

\* async with self.async_lock: (asyncio.Lock)
AAcquire(t) ==
    /\ pc[t] = "aacquire"
    /\ async_lock = "free"
    /\ async_lock' = t
    /\ Goto(t, AsyncBody(loc[t].op))
    /\ UNCHANGED loc
    /\ AsyncFrame

\* an iterator whose loop stays inside the async with block
AReleaseLate(t) ==
    /\ pc[t] = "arelease"
    /\ async_lock' = IF loc[t].op = "aiter" THEN async_lock ELSE "free"
    /\ Goto(t, IF loc[t].op = "aiter" THEN "aiter_yield" ELSE "idle")
    /\ UNCHANGED loc
    /\ AsyncFrame

\* leaving the async with block; __aiter__ goes on to its loop
ARelease(t) ==
    /\ pc[t] = "arelease"
    /\ async_lock' = "free"
    /\ Goto(t, IF loc[t].op = "aiter" THEN "aiter_yield" ELSE "idle")
    /\ UNCHANGED loc
    /\ AsyncFrame

\* ainclude: if item not in self: raise LionTypeError
AIncVerify(t) ==
    /\ pc[t] = "ainc_verify"
    /\ Finish(t, IF ContainsAll(Self, loc[t].item) THEN "ok" ELSE "LionTypeError")
    /\ UNCHANGED <<order, pile_, lock>>
    /\ ThreadFrame

\* __aiter__: current_order = list(self.order)
AIterCopy(t) ==
    /\ pc[t] = "aiter_copy"
    /\ loc' = [loc EXCEPT ![t].ks = order]
    /\ Goto(t, "arelease")
    /\ UNCHANGED <<order, pile_, lock>>
    /\ ThreadFrame

\* __aiter__: yield self.pile_[key], or the end of the loop
AIterYield(t) ==
    /\ pc[t] = "aiter_yield"
    /\ IF loc[t].idx >= Len(loc[t].ks) THEN Finish(t, "ok")
       ELSE IF ~ DictHas(pile_, loc[t].ks[loc[t].idx + 1]) THEN Finish(t, "KeyError")
       ELSE /\ loc' = [loc EXCEPT ![t].idx = @ + 1]
            /\ Goto(t, "aiter_resume")
    /\ UNCHANGED <<order, pile_, lock>>
    /\ ThreadFrame

\* __aiter__: asked for the next element, await asyncio.sleep(0)
AIterSleep(t) ==
    /\ pc[t] = "aiter_resume"
    /\ loc' = [loc EXCEPT ![t].naps = @ + 1]
    /\ Goto(t, "aiter_sleep")
    /\ UNCHANGED <<order, pile_, lock>>
    /\ ThreadFrame

\* the event loop resumes the iterator
AIterWake(t) ==
    /\ pc[t] = "aiter_sleep"
    /\ Goto(t, "aiter_yield")
    /\ UNCHANGED <<order, pile_, lock, loc>>
    /\ ThreadFrame

\* the task is cancelled where it is suspended: CancelledError unwinds the call
Cancel(t) ==
    /\ Suspended(t)
    /\ pc[t] # "idle"
    /\ Finish(t, "CancelledError")
    /\ UNCHANGED <<order, pile_, lock>>
    /\ ThreadFrame

\* cooperative tasks on one event loop
NextAsync ==
    \E t \in Threads :
        \/ Turn(t) /\ ACall(t)
        \/ Turn(t) /\ AAcquire(t)
        \/ Turn(t) /\ ARelease(t)
        \/ Turn(t) /\ Acquire(t)
        \/ Turn(t) /\ Release(t)
        \/ Turn(t) /\ IncCheck(t)
        \/ Turn(t) /\ IncOrder(t)
        \/ Turn(t) /\ IncDict(t)
        \/ Turn(t) /\ AIncVerify(t)
        \/ Turn(t) /\ SetCheck(t)
        \/ Turn(t) /\ SetRead(t)
        \/ Turn(t) /\ SetOrder(t)
        \/ Turn(t) /\ SetPop(t)
        \/ Turn(t) /\ SetConcat(t)
        \/ Turn(t) /\ SetDict(t)
        \/ Turn(t) /\ RemCheck(t)
        \/ Turn(t) /\ ExcCheck(t)
        \/ Turn(t) /\ PopOrder(t)
        \/ Turn(t) /\ PopDict(t)
        \/ Turn(t) /\ ClrDict(t)
        \/ Turn(t) /\ ClrOrder(t)
        \/ Turn(t) /\ AIterCopy(t)
        \/ Turn(t) /\ AIterYield(t)
        \/ Turn(t) /\ AIterSleep(t)
        \/ Turn(t) /\ AIterWake(t)
        \/ Turn(t) /\ Cancel(t)

SpecAsync == InitThreads /\ [][NextAsync]_vars

\* a thread on the synchronous surface and a task on the asynchronous one
NextMixed ==
    \/ Call("t1")
    \/ ACall("t2")
    \/ \E t \in Threads :
           \/ Acquire(t)
           \/ Release(t)
           \/ AAcquire(t)
           \/ ARelease(t)
           \/ IncCheck(t)
           \/ IncOrder(t)
           \/ IncDict(t)
           \/ AIncVerify(t)
           \/ InsCheck(t)
           \/ InsOrder(t)
           \/ InsDict(t)
           \/ SetCheck(t)
           \/ SetRead(t)
           \/ SetOrder(t)
           \/ SetPop(t)
           \/ SetConcat(t)
           \/ SetDict(t)
           \/ RemCheck(t)
           \/ ExcCheck(t)
           \/ PopOrder(t)
           \/ PopDict(t)
           \/ ClrDict(t)
           \/ ClrOrder(t)
           \/ AIterCopy(t)
           \/ AIterYield(t)
           \/ AIterSleep(t)
           \/ AIterWake(t)
           \/ Cancel(t)

SpecMixed == InitThreads /\ [][NextMixed]_vars

----------------------------------------------------------------------------
(* Lock acquisition along the call chains: a thread that loops over the    *)
(* Pile and calls pop from the loop's body, or makes one synchronous call  *)
(* (append -> update -> include among them), beside a task that makes one  *)
(* asynchronous call (aremove and aexclude -> pop, adump -> dump -> clear  *)
(* among them).  Every thread and task that can take a step is eventually  *)
(* given one.                                                              *)

\* for x in pile: the generator starts and goes for the blocking lock
LoopCall(t) ==
    /\ pc[t] = "idle"
    /\ loc[t].calls < MaxCalls
    /\ loc' = [loc EXCEPT ![t] = [NoLoc EXCEPT !.op = "iter",
                                              !.calls = loc[t].calls + 1]]
    /\ Goto(t, "acquire")
    /\ UNCHANGED <<order, pile_, lock>>
    /\ ThreadFrame

\* a generator that is still inside with self.lock when it yields
IterCopyHolding(t) ==
    /\ pc[t] = "iter_copy"
    /\ loc' = [loc EXCEPT ![t].ks = order, ![t].out = "ok"]
    /\ Goto(t, "idle")
    /\ UNCHANGED <<order, pile_, lock>>
    /\ ThreadFrame

\* __iter__: current_order = list(self.order), the last statement of the
\* with-block
IterCopy(t) ==
    /\ pc[t] = "iter_copy"
    /\ loc' = [loc EXCEPT ![t].ks = order, ![t].out = "ok"]
    /\ Goto(t, "release")
    /\ UNCHANGED <<order, pile_, lock>>
    /\ ThreadFrame

\* the loop's first round: yield self.pile_[key], and the body calls pop(x)
LoopBody(t) ==
    /\ pc[t] = "idle"
    /\ loc[t].op = "iter"
    /\ loc[t].ks # <<>>
    /\ IF DictHas(pile_, loc[t].ks[1])
       THEN /\ loc' = [loc EXCEPT ![t].op = "loop_pop",
                                  ![t].item = <<DictGet(pile_, loc[t].ks[1])>>,
                                  ![t].out = ""]
            /\ Goto(t, "acquire")
       ELSE /\ loc' = [loc EXCEPT ![t].op = "loop_pop", ![t].out = "KeyError"]
            /\ UNCHANGED pc
    /\ UNCHANGED <<order, pile_, lock>>
    /\ ThreadFrame

\* await pile.adump(clear)
ADumpCall(t) ==
    /\ pc[t] = "idle"
    /\ loc[t].calls < MaxCalls
    /\ \E op \in {"dump", "dump_clear"} :
          loc' = [loc EXCEPT ![t] = [NoLoc EXCEPT !.op = op, !.surface = "async",
                                                  !.calls = loc[t].calls + 1]]
    /\ Goto(t, "aacquire")
    /\ UNCHANGED async_lock
    /\ AsyncFrame

\* dump: result = self.to_dict(); if clear: self.clear()
DumpExport(t) ==
    /\ pc[t] = "dump_export"
    /\ IF loc[t].op = "dump_clear"
       THEN Goto(t, "acquire") /\ UNCHANGED loc
       ELSE Finish(t, "ok")
    /\ UNCHANGED <<order, pile_, lock>>
    /\ ThreadFrame

\* the steps of t inside a call
Step(t) ==
    \/ Acquire(t)
    \/ Release(t)
    \/ AAcquire(t)
    \/ ARelease(t)
    \/ IncCheck(t)
    \/ IncOrder(t)
    \/ IncDict(t)
    \/ AIncVerify(t)
    \/ InsCheck(t)
    \/ InsOrder(t)
    \/ InsDict(t)
    \/ SetCheck(t)
    \/ SetRead(t)
    \/ SetOrder(t)
    \/ SetPop(t)
    \/ SetConcat(t)
    \/ SetDict(t)
    \/ RemCheck(t)
    \/ ExcCheck(t)
    \/ PopOrder(t)
    \/ PopDict(t)
    \/ ClrDict(t)
    \/ ClrOrder(t)
    \/ AIterCopy(t)
    \/ AIterYield(t)
    \/ AIterSleep(t)
    \/ AIterWake(t)
    \/ IterCopy(t)
    \/ DumpExport(t)

NextLocks ==
    \/ Call("t1")
    \/ LoopCall("t1")
    \/ LoopBody("t1")
    \/ ACall("t2")
    \/ ADumpCall("t2")
    \/ \E t \in Threads : Step(t)
    \/ \E t \in Threads : Cancel(t)

\* the scheduler of the threads and the event loop of the tasks leave no
\* runnable call waiting for ever
Fairness == \A t \in Threads : WF_vars(Step(t))

\* the Pile the calls start from holds at most MaxSeed elements
InitLocks ==
    /\ InitThreads
    /\ Len(order) <= MaxSeed

SpecLocks == InitLocks /\ [][NextLocks]_vars /\ Fairness

----------------------------------------------------------------------------
(* Single calls under observation: the same Pile, with last keeping the    *)
(* outcome of get, of insert, of set_item under an integer index and of    *)
(* dump.                                                                   *)

\* a key that neither Order nor the mapping holds
Absent(p, k) == ~ OrderContains(p.order, k) /\ ~ DictHas(p.pile_, k)

SingleKeys == {[t |-> "id", id |-> k] : k \in Keys}

GetKeys == IntKeys \cup SingleKeys \cup IdKeys

\* the key addresses nothing: an index past the end, an identity key that is
\* absent, a collection holding an absent key
Missing(p, key) ==
    IF key.t = "int" THEN key.i >= Len(p.order)
    ELSE IF key.t = "id" THEN Absent(p, key.id)
    ELSE IF key.t = "ids" THEN \E i \in 1..Len(key.ids) : Absent(p, key.ids[i])
    ELSE FALSE

GetCase(p, key) == IF Missing(p, key) THEN "miss" ELSE "hit"

\* an integer index given more than one element, all valid and none in Order
ScalarMany(p, key, item) ==
    LET v == _validate_pile(p, item) IN
    /\ key.t = "int"
    /\ v.ok
    /\ Len(DictKeys(v.dict)) > 1
    /\ \A i \in 1..Len(v.dict) : ~ OrderContains(p.order, v.dict[i].ln_id)

\* ... at a position Order has
SetItemCase(p, key, item) ==
    IF ScalarMany(p, key, item) /\ key.i < Len(p.order) THEN "scalar_many" ELSE "other"

\* the calls whose outcome is kept
Watched == {<<"_get", "miss">>, <<"_insert", "absent">>, <<"_insert", "mixed">>,
            <<"_setitem", "scalar_many">>, <<"dump", "clear">>}

Watch(op, case, ret) ==
    IF <<op, case>> \in Watched
    THEN [op |-> op, case |-> case, kind |-> ret.kind,
          err |-> IF ret.kind = "raise" THEN ret.err ELSE ""]
    ELSE Untracked

CallGet == \E key \in GetKeys, default \in Defaults :
    LET r == get(Self, key, default) IN
    /\ last' = Watch("_get", GetCase(Self, key), r)
    /\ UNCHANGED <<order, pile_>>
    /\ Frame

CallInsert == \E index \in Indices, item \in OriginalBatches :
    LET r == insert(Self, index, item) IN
    /\ order' = r.order
    /\ pile_' = r.pile_
    /\ last' = Watch("_insert", ItemCase(Self, item), r.ret)
    /\ Frame

CallSetItem == \E key \in IntKeys \cup IdKeys, item \in OriginalBatches :
    LET r == __setitem__(Self, key, item) IN
    /\ order' = r.order
    /\ pile_' = r.pile_
    /\ last' = Watch("_setitem", SetItemCase(Self, key, item), r.ret)
    /\ Frame

CallPop == \E key \in IntKeys, default \in Defaults :
    LET r == pop(Self, key, default) IN
    /\ order' = r.order
    /\ pile_' = r.pile_
    /\ last' = Watch("_pop", key.t, r.ret)
    /\ Frame

\* dump(clear=True) of a Pile that holds something, or any other dump
DumpCase(p, doClear) == IF doClear /\ p.pile_ # <<>> THEN "clear" ELSE "keep"

CallDump == \E doClear \in BOOLEAN :
    LET r == dump(Self, doClear) IN
    /\ order' = r.order
    /\ pile_' = r.pile_
    /\ last' = Watch("dump", DumpCase(Self, doClear), r.ret)
    /\ Frame

NextCalls ==
    \/ CallGet
    \/ CallInsert
    \/ CallSetItem
    \/ CallPop
    \/ CallDump

SpecCalls == Init /\ [][NextCalls]_vars

----------------------------------------------------------------------------
(* Properties of single-threaded operation sequences (Spec)                *)

With(p, r) == [p EXCEPT !.order = r.order, !.pile_ = r.pile_]

Unchanged(p, r) == r.order = p.order /\ r.pile_ = p.pile_

\* a member: its key is in Order and in the mapping
Member(p, e) == OrderContains(p.order, e.ln_id) /\ DictHas(p.pile_, e.ln_id)

\* C1: after every operation the key set of Order is the key set of the
\* mapping and Order holds no key twice.
C1_Bijection == Bijective(order, pile_)

\* C6: load(p.dump()) has the key sequence of p.
C6_RoundTrip ==
    LET made == load(dump(Self, FALSE).ret.val) IN
    made.ok /\ keys(made.pile) = keys(Self)

\* C7: values() lists the mapping's elements in Order's sequence and
\* get_item(i) is values()[i] for every valid index i.
C7_OrderPreservation ==
    LET v == values(Self) IN
    /\ v.kind = "return"
    /\ Len(v.val) = Len(keys(Self))
    /\ \A i \in 1..Len(keys(Self)) :
          /\ v.val[i].ln_id = keys(Self)[i]
          /\ _get(Self, [t |-> "int", i |-> i - 1], Undefined) = Return(v.val[i])

\* C8: include(x); include(x) leaves the state include(x) leaves, and
\* including only members changes neither Order nor the mapping's keys.
C8_IncludeIdempotent ==
    \A item \in Batches :
        LET r1 == include(Self, item)
            r2 == include(With(Self, r1), item)
        IN  r1.ret.kind = "return" =>
              /\ r2.ret.kind = "return"
              /\ r2.order = r1.order
              /\ r2.pile_ = r1.pile_
              /\ (\A i \in 1..Len(item) : Member(Self, item[i])) =>
                    /\ r1.order = order
                    /\ DictKeys(r1.pile_) = DictKeys(pile_)

C8_Witness ==
    /\ last.op = "_include"
    /\ last.case = "present"
    /\ last.kind = "return"
    /\ Len(order) >= 2
    /\ C1_Bijection

\* C9: exclude returns without raising, whatever it is given.
C9_ExcludeNeverRaises == last.op = "_exclude" => last.kind = "return"

\* a batch holding an instance of a proper subtype of an allowed type
HasSubtype(p, item) ==
    \E i \in 1..Len(item) :
        /\ item[i].cls \notin p.item_type
        /\ \E t \in p.item_type : IsSubclass(item[i].cls, t)

Rejected(p, r) == r.ret = Raise("LionTypeError") /\ Unchanged(p, r)

\* C10: a strict Pile rejects an instance of a proper subtype in include,
\* update, insert and set_item and stays unchanged, so every member's exact
\* type is in item_type; a Pile that is not strict takes it as a member.
C10_TypeGating ==
    /\ (item_type # {} /\ strict) =>
          \A i \in 1..Len(pile_) : pile_[i].cls \in item_type
    /\ \A item \in Batches :
          (item_type # {} /\ HasSubtype(Self, item)) =>
             IF strict
             THEN /\ Rejected(Self, include(Self, item))
                  /\ Rejected(Self, update(Self, item))
                  /\ \A index \in Indices : Rejected(Self, insert(Self, index, item))
                  /\ \A key \in AllKeys : Rejected(Self, __setitem__(Self, key, item))
             ELSE (\A i \in 1..Len(item) : TypeAllowed(item_type, FALSE, item[i].cls)) =>
                  LET r == include(Self, item) IN
                  /\ r.ret.kind = "return"
                  /\ update(Self, item) = r
                  /\ \A i \in 1..Len(item) : Member(With(Self, r), item[i])
                  /\ \A index \in Indices :
                        insert(Self, index, item).ret # Raise("LionTypeError")
                  /\ \A key \in AllKeys :
                        __setitem__(Self, key, item).ret # Raise("LionTypeError")

C10_Witness ==
    /\ strict
    /\ item_type = {"A"}
    /\ pile_ # <<>>
    /\ last = [op |-> "_include", case |-> "subtype", kind |-> "raise",
               err |-> "LionTypeError"]

\* the call raised the validation error of the batch and changed nothing
Refused(p, item, r) ==
    /\ r.ret = Raise(_validate_pile(p, item).err)
    /\ Unchanged(p, r)

\* C11: a batch in which some element fails validation makes include, update,
\* append, insert and set_item raise and leave Order and the mapping as they
\* were, whatever else the batch holds and whatever key or index is given.
C11_AllOrNothing ==
    \A item \in Batches :
        ~ _validate_pile(Self, item).ok =>
            /\ Refused(Self, item, include(Self, item))
            /\ Refused(Self, item, update(Self, item))
            /\ Refused(Self, item, append(Self, item))
            /\ \A index \in Indices : Refused(Self, item, insert(Self, index, item))
            /\ \A key \in AllKeys : Refused(Self, item, __setitem__(Self, key, item))

\* include was given a member together with an element of a class that is
\* not allowed, and raised
C11_Witness ==
    /\ ~ strict
    /\ item_type = {"A"}
    /\ Len(order) >= 1
    /\ last = [op |-> "_include", case |-> "mixed", kind |-> "raise",
               err |-> "LionTypeError"]

\* s without its i-th entry
Without(s, i) == SubSeq(s, 1, i - 1) \o SubSeq(s, i + 1, Len(s))

C15_SliceSplice ==
    \A key \in SliceKeys, item \in Batches :
        LET v == _validate_pile(Self, item)
            lo == Min(key.a, Len(order))
            hi == Min(key.b, Len(order))
            r == __setitem__(Self, key, item)
            after == With(Self, r)
        IN  (v.ok /\ \A i \in 1..Len(item) : ~ Contains(Self, item[i])) =>
               /\ r.ret = Return("None")
               /\ r.order = SubSeq(order, 1, lo) \o DictKeys(v.dict)
                                \o SubSeq(order, hi + 1, Len(order))
               /\ \A j \in (lo + 1)..hi :
                     get(after, [t |-> "id", id |-> order[j]], Undefined)
                        = Raise("ItemNotFoundError")
               /\ \A i \in 1..Len(v.dict) :
                     get(after, [t |-> "id", id |-> v.dict[i].ln_id], Undefined)
                        = Return(v.dict[i])

\* the keys of Order an index or a slice addresses
Span(p, key) ==
    IF key.t = "int"
    THEN IF key.i < Len(p.order) THEN {p.order[key.i + 1]} ELSE {}
    ELSE Range(OrderGetSlice(p.order, key.a, key.b))

\* C16: set_item under an index or a slice raises Exists exactly when a key
\* of the incoming elements is in Order outside the span being overwritten;
\* an element whose key is the one at the position assigned is taken.
C16_SpanCollision ==
    \A key \in IntKeys \cup SliceKeys, item \in Batches :
        LET v == _validate_pile(Self, item)
            r == __setitem__(Self, key, item)
        IN  v.ok =>
               ((r.ret = Raise("ItemExistsError")) <=>
                   \E i \in 1..Len(v.dict) :
                       /\ OrderContains(order, v.dict[i].ln_id)
                       /\ v.dict[i].ln_id \notin Span(Self, key))

\* C17: set_item under a collection of identity keys, with valid elements
\* that are not in the Pile, returns only when the keys given are the keys of
\* the elements, each once, and then appends them at the tail; with any other
\* key collection it raises a Key error and changes nothing.
C17_IdentityKeys ==
    \A key \in IdKeys, item \in Batches :
        LET v == _validate_pile(Self, item)
            r == __setitem__(Self, key, item)
        IN  (/\ key.ids # <<>>
             /\ v.ok
             /\ \A i \in 1..Len(item) : ~ Contains(Self, item[i])) =>
               IF NoDup(key.ids) /\ Range(key.ids) = Range(DictKeys(v.dict))
               THEN /\ r.ret = Return("None")
                    /\ r.order = order \o key.ids
                    /\ \A i \in 1..Len(v.dict) :
                          /\ DictHas(r.pile_, v.dict[i].ln_id)
                          /\ DictGet(r.pile_, v.dict[i].ln_id) = v.dict[i]
               ELSE /\ r.ret = Raise("KeyError")
                    /\ Unchanged(Self, r)

\* C19: remove(e) of an element that is in the Pile takes e's key, and no
\* other, out of Order and out of the mapping and keeps the other keys in
\* their sequence; remove(e) of an element that is not in the Pile raises
\* NotFound and changes nothing.
C19_RemoveStrict ==
    \A e \in Elements :
        LET r == remove(Self, e) IN
        IF Contains(Self, e)
        THEN /\ r.ret.kind = "return"
             /\ r.order = SelectSeq(order, LAMBDA k : k # e.ln_id)
             /\ r.pile_ = SelectSeq(pile_, LAMBDA x : x.ln_id # e.ln_id)
             /\ ~ OrderContains(r.order, e.ln_id)
             /\ ~ DictHas(r.pile_, e.ln_id)
        ELSE /\ r.ret = Raise("ItemNotFoundError")
             /\ Unchanged(Self, r)

\* C20: constructing a Pile from valid items with an explicit order raises a
\* Value error unless the order holds each key of the items exactly once (an
\* explicit empty order for items that are not empty included), and otherwise
\* keys() is that order; with no order keys() is the items' sequence.
C20_ConstructionOrder ==
    \A items \in Batches, ord \in OrderArgs :
        LET v == _validate_pile(Self, items)
            made == __init__(items, item_type, ord, strict)
        IN  v.ok =>
               IF ~ ord.given
               THEN made.ok /\ keys(made.pile) = DictKeys(v.dict)
               ELSE IF NoDup(ord.keys) /\ Range(ord.keys) = Range(DictKeys(v.dict))
               THEN made.ok /\ keys(made.pile) = ord.keys
               ELSE ~ made.ok /\ made.err = "LionValueError"

\* C21: run alone, every asynchronous mutator gives the outcome, the Order
\* and the mapping of its synchronous counterpart, on every state and for
\* every argument (empty batches and batches of members included).
C21_AsyncEquivalent ==
    /\ \A item \in Batches :
          /\ ainclude(Self, item) = include(Self, item)
          /\ aexclude(Self, item) = exclude(Self, item)
          /\ aupdate(Self, item) = update(Self, item)
    /\ \A item \in Items : aremove(Self, item) = remove(Self, item)
    /\ \A key \in AllKeys, item \in OriginalBatches :
          asetitem(Self, key, item) = __setitem__(Self, key, item)
    /\ \A key \in AllKeys, default \in Defaults :
          apop(Self, key, default) = pop(Self, key, default)
    /\ aclear(Self) = clear(Self)

\* C23: adump(clear) returns the export dump(clear) returns and leaves the
\* Pile as dump(clear) leaves it.
C23_AdumpIsDump ==
    \A doClear \in BOOLEAN :
        LET a == adump(Self, doClear)
            d == dump(Self, doClear)
        IN  /\ a.order = d.order
            /\ a.pile_ = d.pile_
            /\ a.ret.kind = d.ret.kind
            /\ a.ret.val # "None"
            /\ a.ret.val = d.ret.val

\* the keys of a batch, each once, in order of first appearance
FirstKeys(item) ==
    LET ks == validate_order(item) IN
    SelectSeq([i \in 1..Len(ks) |-> <<i, ks[i]>>],
              LAMBDA x : \A j \in 1..(x[1] - 1) : ks[j] # x[2])

\* C24: p + x returns a new Pile with p's keys in p's order followed by the
\* keys of x that p lacks, p - x returns a new Pile with p's keys less those
\* of x, neither changes p, and += and -= make the same change in p itself.
C24_CombinationOperators ==
    \A other \in OriginalBatches :
        LET add == __add__(Self, other)
            sub == __sub__(Self, other)
            xs == Range(validate_order(other))
            fresh == SelectSeq(FirstKeys(other),
                               LAMBDA x : ~ OrderContains(order, x[2]))
            sum == order \o [i \in 1..Len(fresh) |-> fresh[i][2]]
            rest == SelectSeq(order, LAMBDA k : k \notin xs)
        IN  /\ Unchanged(Self, add)
            /\ add.ret.kind = "return"
            /\ add.ret.val.order = sum
            /\ DictKeys(add.ret.val.pile_) = sum
            /\ Unchanged(Self, sub)
            /\ sub.ret.kind = "return"
            /\ sub.ret.val.order = rest
            /\ Range(DictKeys(sub.ret.val.pile_)) = Range(rest)
            /\ __iadd__(Self, other).order = sum
            /\ Len(other) = 1 => __isub__(Self, other[1]).order = rest

\* C25: a key of no accepted shape makes get_item, pop and set_item fail with
\* a Type-kind error, not with the NotFound error of an absent key, and
\* leaves Order and the mapping alone.
C25_KeyShape ==
    /\ _getitem(Self, OtherKey) = Raise("LionTypeError")
    /\ \A default \in Defaults :
          LET r == pop(Self, OtherKey, default) IN
          r.ret = Raise("LionTypeError") /\ Unchanged(Self, r)
    /\ \A item \in OriginalBatches :
          LET r == __setitem__(Self, OtherKey, item) IN
          /\ r.ret.kind = "raise"
          /\ r.ret.err = "LionTypeError"
          /\ Unchanged(Self, r)

\* C31: include of an element whose key is a member leaves the object stored
\* under that key as it was, and a batch whose new elements are all valid is
\* taken whatever its members are.
C31_IncludeSkipsPresent ==
    \A item \in Batches :
        LET r == include(Self, item)
            fresh == SelectSeq(item, LAMBDA i : ~ Contains(Self, i))
        IN  /\ r.ret.kind = "return" =>
                 \A i \in 1..Len(pile_) :
                     OrderContains(order, pile_[i].ln_id) =>
                        DictGet(r.pile_, pile_[i].ln_id) = pile_[i]
            /\ _validate_pile(Self, fresh).ok => r.ret.kind = "return"

\* C32: include(x), update(x) and append(x) have one outcome; for a batch
\* that passes validation the keys there keep their positions, the keys of x
\* that Order lacked follow at the tail in the order of their first
\* appearance in x, and the mapping holds the keys it held and those of x.
C32_TailPlacement ==
    \A item \in Batches :
        LET r == include(Self, item)
            fresh == SelectSeq(FirstKeys(item),
                               LAMBDA x : ~ OrderContains(order, x[2]))
        IN  /\ update(Self, item) = r
            /\ append(Self, item) = r
            /\ _validate_pile(Self, item).ok =>
                  /\ r.ret = Return("None")
                  /\ r.order = order \o [i \in 1..Len(fresh) |-> fresh[i][2]]
                  /\ Range(DictKeys(r.pile_)) =
                        Range(DictKeys(pile_)) \cup Range(validate_order(item))

\* include of a batch holding a member and a new element has returned and
\* the Pile now holds every key, each once
C32_Witness ==
    /\ last = [op |-> "_include", case |-> "mixed", kind |-> "return", err |-> ""]
    /\ Len(order) = NumKeys
    /\ Bijective(order, pile_)

\* the outcomes of pop and get_item under one key agree: both raise the same
\* error or both return the same value
SameOutcome(a, b) ==
    /\ a.kind = b.kind
    /\ a.kind = "return" => a.val = b.val
    /\ a.kind = "raise" => a.err = b.err

\* the key as get_item and as pop take it: pop has no case for one identity
\* key, which validate_order turns into a collection of one
PopKey(key) == IF key.t = "id" THEN [t |-> "ids", ids |-> <<key.id>>] ELSE key

\* C33: pop(key, default) returns what get_item(key, default) returns in the
\* same state, an element or a new Pile with the same keys in the same order,
\* and misses exactly when get_item misses.
C33_PopAsGet ==
    \A key \in AllKeys \cup SingleKeys :
        LET popped == pop(Self, PopKey(key), Undefined).ret
            got == get(Self, key, Undefined)
        IN  /\ SameOutcome(popped, got)
            /\ popped.kind = "raise" =>
                  /\ pop(Self, PopKey(key), "None").ret = Return("None")
                  /\ get(Self, key, "None") = Return("None")

\* C34: a pop under a slice or a collection of keys that ends in a miss,
\* raising or returning the default, leaves Order and the mapping as they
\* were.
C34_FailingPopKeeps ==
    \A key \in SliceKeys \cup IdKeys, default \in Defaults :
        pop(Self, key, Undefined).ret.kind = "raise" =>
            Unchanged(Self, pop(Self, key, default))

\* a returned value that is a Pile
IsPile(v) == "order" \in DOMAIN v

\* the Pile an operation has returned gates its elements as p does
KeepsGate(p, r) ==
    (r.kind = "return" /\ IsPile(r.val)) =>
        /\ r.val.item_type = p.item_type
        /\ r.val.strict = p.strict
        /\ \A e \in Items :
              ~ _validate_pile(p, <<e>>).ok => ~ _validate_pile(r.val, <<e>>).ok

\* C37: the Pile that p + x, p - x, get_item or pop under a slice or a
\* collection of keys returns has the item_type and the strict flag of p, and
\* rejects every element p rejects.
C37_DerivedKeepGate ==
    /\ \A other \in OriginalBatches :
          /\ KeepsGate(Self, __add__(Self, other).ret)
          /\ KeepsGate(Self, __sub__(Self, other).ret)
    /\ \A key \in SliceKeys \cup IdKeys :
          /\ KeepsGate(Self, get(Self, key, Undefined))
          /\ KeepsGate(Self, pop(Self, key, Undefined).ret)

\* C38: size() is len(), is_empty() holds exactly when both are 0, and an
\* element is reported a member exactly when get_item of its key returns.
C38_SizeLenAgree ==
    /\ size(Self) = __len__(Self)
    /\ is_empty(Self) <=> (size(Self) = 0 /\ __len__(Self) = 0)
    /\ \A e \in Elements :
          Contains(Self, e) <=>
             get(Self, [t |-> "id", id |-> e.ln_id], Undefined).kind = "return"

\* the i-th of successive calls of next(pile) and of anext(pile) on a Pile
\* nothing else touches: the call keeps nothing and changes nothing, so it is
\* the first call again
NextCall(p, i) == __next__(p)

ANextCall(p, i) == __anext__(p)

\* C39: on a Pile of n elements the i-th call returns the element at position
\* i of Order, for i = 1..n, and call n + 1 raises StopIteration
\* (StopAsyncIteration).
C39_NextAdvances ==
    LET n == Len(order) IN
    /\ \A i \in 1..n :
          /\ NextCall(Self, i).kind = "return"
          /\ NextCall(Self, i).val.ln_id = order[i]
          /\ ANextCall(Self, i).kind = "return"
          /\ ANextCall(Self, i).val.ln_id = order[i]
    /\ NextCall(Self, n + 1) = Raise("StopIteration")
    /\ ANextCall(Self, n + 1) = Raise("StopAsyncIteration")

----------------------------------------------------------------------------
(* Properties of single calls (SpecCalls)                                  *)

\* C13: get_item with a key that addresses nothing (an index past the end,
\* an absent identity key, a collection holding an absent key) returns the
\* default when one is supplied and raises NotFound when none is, and the
\* call leaves Order and the mapping as they were.
C13_MissPolicy ==
    /\ [](\A key \in GetKeys, default \in Defaults :
             Missing(Self, key) =>
                get(Self, key, default) =
                   IF default = Undefined THEN Raise("ItemNotFoundError")
                   ELSE Return(default))
    /\ [][last'.op = "_get" => UNCHANGED <<order, pile_>>]_vars

\* get_item missed on a Pile of two or more elements and returned its default
C13_Witness ==
    /\ Len(order) >= 2
    /\ last = [op |-> "_get", case |-> "miss", kind |-> "return", err |-> ""]

\* C14: insert(i, e) of an element whose key is not in the Pile puts the key
\* at position i, keeps the keys before i, moves the keys from i on one place
\* to the right and stores e in the mapping; insert of a valid batch holding
\* an element whose key is in the Pile raises Exists and changes nothing.
C14_InsertPositional ==
    /\ \A index \in 0..Len(order), e \in Elements :
          (_validate_pile(Self, <<e>>).ok /\ ~ Contains(Self, e)) =>
             LET r == insert(Self, index, <<e>>) IN
             /\ r.ret = Return("None")
             /\ Len(r.order) = Len(order) + 1
             /\ r.order[index + 1] = e.ln_id
             /\ \A j \in 1..index : r.order[j] = order[j]
             /\ \A j \in (index + 1)..Len(order) : r.order[j + 1] = order[j]
             /\ DictHas(r.pile_, e.ln_id)
             /\ DictGet(r.pile_, e.ln_id) = e
             /\ \A i \in 1..Len(pile_) :
                   pile_[i].ln_id # e.ln_id =>
                      /\ DictHas(r.pile_, pile_[i].ln_id)
                      /\ DictGet(r.pile_, pile_[i].ln_id) = pile_[i]
    /\ \A index \in Indices, item \in Batches :
          (/\ _validate_pile(Self, item).ok
           /\ \E i \in 1..Len(item) : Contains(Self, item[i])) =>
             LET r == insert(Self, index, item) IN
             /\ r.ret = Raise("ItemExistsError")
             /\ Unchanged(Self, r)

\* insert of an element that was not in the Pile returned and the Pile now
\* holds every key
C14_Witness ==
    /\ Len(order) = NumKeys
    /\ Bijective(order, pile_)
    /\ last = [op |-> "_insert", case |-> "absent", kind |-> "return", err |-> ""]

C22_DumpExports ==
    LET export == [i \in 1..Len(pile_) |->
                      [ln_id |-> pile_[i].ln_id, lion_class |-> pile_[i].cls]]
        kept == dump(Self, FALSE)
        cleared == dump(Self, TRUE)
    IN  /\ kept.ret.kind = "return"
        /\ kept.ret.val.pile_ = export
        /\ Unchanged(Self, kept)
        /\ cleared.ret.kind = "return"
        /\ cleared.ret.val.pile_ = export
        /\ cleared.order = <<>>
        /\ cleared.pile_ = <<>>

\* dump(clear=True) has emptied a Pile that held something
C22_Witness ==
    /\ last.op = "dump"
    /\ last.case = "clear"
    /\ last.kind = "return"
    /\ order = <<>>
    /\ pile_ = <<>>

----------------------------------------------------------------------------
(* Properties of iteration (SpecIter)                                      *)

\* C4: a loop whose snapshot was taken before a removal does not raise,
\* yields no element twice and yields as many elements as the snapshot holds.
C4_IterationToleratesRemoval ==
    /\ iter.status # "raised"
    /\ NoDup([i \in 1..Len(iter.yielded) |-> iter.yielded[i].ln_id])
    /\ iter.status = "done" => Len(iter.yielded) = Len(iter.snap)

\* C5: a loop yields elements only for the keys of its snapshot, in the
\* snapshot's sequence, whatever is added, removed or moved meanwhile.
C5_SnapshotFixed ==
    /\ Len(iter.yielded) = iter.pos
    /\ iter.pos <= Len(iter.snap)
    /\ \A i \in 1..Len(iter.yielded) : iter.yielded[i].ln_id = iter.snap[i]

C5_Witness ==
    /\ iter.status = "done"
    /\ Len(iter.yielded) >= 2
    /\ \E k \in Range(order) : k \notin Range(iter.snap)
    /\ \E i \in 1..Len(order) : i <= Len(iter.snap) /\ order[i] # iter.snap[i]

----------------------------------------------------------------------------
(* Properties of threads (SpecThreads)                                     *)

\* the steps that read Order to decide a change, or write Order or the mapping
Structural == {"inc_check", "inc_order", "inc_dict", "ins_check", "ins_order",
               "ins_dict", "set_check", "set_read", "set_order", "set_pop",
               "set_concat", "set_dict", "rem_check", "exc_check", "pop_order",
               "pop_dict", "clr_dict", "clr_order"}

\* C2: a synchronous mutating call holds the blocking lock from its first
\* read of Order to its last write of Order and the mapping.
C2_LockHeld == \A t \in Threads : pc[t] \in Structural => lock = t

\* C3: once every call of every thread has returned, the key set of Order is
\* the key set of the mapping and Order holds no key twice.
C3_ThreadSafe ==
    (\A t \in Threads : pc[t] = "idle") => Bijective(order, pile_)

\* C29: when a thread calls exclude(x) while the other calls exclude, pop or
\* remove of the same x, the exclude returns without raising, and once both
\* have returned x is in neither Order nor the mapping.
C29_ExcludeConcurrent ==
    \A t, u \in Threads :
        ( /\ t # u
          /\ loc[t].op = "exclude"
          /\ loc[u].op \in {"exclude", "pop", "remove"}
          /\ loc[u].item = loc[t].item
          /\ pc[t] = "idle" )
        => /\ loc[t].out = "ok"
           /\ pc[u] = "idle" => ~ OrderContains(order, ItemKey(t))
                                /\ ~ DictHas(pile_, ItemKey(t))

\* each thread has made one call, pop of the element of key k, and both have
\* returned
BothPopped(k) ==
    \A t \in Threads :
        /\ pc[t] = "idle"
        /\ loc[t].calls = 1
        /\ loc[t].op = "pop"
        /\ loc[t].item = <<Elem(k, "orig")>>

\* the threads whose call returned the element
Winners == {t \in Threads : loc[t].out = "ok"}

\* C35: when the threads all call pop(k) for a key k the Pile holds, then in
\* every interleaving, once all have returned, one call has returned the
\* element, every other has raised NotFound, and k is in neither Order nor
\* the mapping.
C35_OnePopWins ==
    \A k \in Keys :
        (OrderContains(order, k) /\ DictHas(pile_, k)) =>
            [](BothPopped(k) =>
                  /\ Cardinality(Winners) = 1
                  /\ \A t \in Threads \ Winners : loc[t].out = "ItemNotFoundError"
                  /\ ~ OrderContains(order, k)
                  /\ ~ DictHas(pile_, k))

\* two pops of one key have returned, one with the element and one raising,
\* and another element is still in the Pile
C35_Witness ==
    \E k \in Keys :
        /\ BothPopped(k)
        /\ Cardinality(Winners) = 1
        /\ \E t \in Threads : loc[t].out = "ItemNotFoundError"
        /\ Len(order) >= 1

----------------------------------------------------------------------------
(* Properties of tasks (SpecAsync)                                         *)

\* every task is off the event loop: any of them may be given the next step
AllSuspended == \A t \in Threads : Suspended(t)

\* C27: the asynchronous iterator holds the cooperative lock only while it
\* copies the key order; it suspends once for each element it has yielded,
\* never holding the lock, and whenever the event loop may pick another task
\* the lock is free for that task's mutator.
C27_AiterSuspendsUnlocked ==
    \A t \in Threads :
        loc[t].op = "aiter" =>
            /\ async_lock = t => pc[t] \in {"aiter_copy", "arelease"}
            /\ pc[t] = "aiter_sleep" => async_lock # t
            /\ (pc[t] = "aiter_sleep" /\ AllSuspended) => async_lock = "free"
            /\ loc[t].naps <= loc[t].idx
            /\ loc[t].idx <= loc[t].naps + 1
            /\ pc[t] \in {"aiter_sleep", "aiter_yield"} => loc[t].naps = loc[t].idx
            /\ (pc[t] = "idle" /\ loc[t].out = "ok") => loc[t].naps = Len(loc[t].ks)

\* the iterator sleeps between its first and second element while the other
\* task holds the cooperative lock inside a mutator
C27_Witness ==
    \E t, u \in Threads :
        /\ t # u
        /\ loc[t].op = "aiter"
        /\ pc[t] = "aiter_sleep"
        /\ loc[t].idx = 1
        /\ Len(loc[t].ks) = 2
        /\ async_lock = u
        /\ loc[u].op \in {"include", "pop", "clear", "set_item"}

\* C28: with tasks on the asynchronous surface only, whenever the event loop
\* may give another task a step no task is inside a mutator holding the
\* cooperative lock, and the key set of Order is the key set of the mapping.
C28_AsyncAtomic ==
    AllSuspended =>
        /\ async_lock = "free"
        /\ lock = "free"
        /\ Range(order) = Range(DictKeys(pile_))

----------------------------------------------------------------------------
(* Properties of a thread and a task together (SpecMixed)                  *)

\* C26: a call that has ended, by returning, by raising or by being
\* cancelled, holds neither lock, so with no call in progress both locks are
\* free for the next one.
C26_LocksReleased ==
    /\ \A t \in Threads : pc[t] = "idle" => lock # t /\ async_lock # t
    /\ (\A t \in Threads : pc[t] = "idle") => lock = "free" /\ async_lock = "free"

\* insert has raised ItemExistsError under the blocking lock and an
\* asynchronous mutator has raised under the cooperative lock; both are free
C26_Witness ==
    /\ pc["t1"] = "idle"
    /\ loc["t1"].op = "insert"
    /\ loc["t1"].out = "ItemExistsError"
    /\ pc["t2"] = "idle"
    /\ loc["t2"].surface = "async"
    /\ loc["t2"].op \in {"pop", "include", "set_item"}
    /\ loc["t2"].out \in {"ItemNotFoundError", "LionValueError", "ItemExistsError"}
    /\ lock = "free"
    /\ async_lock = "free"

\* C30: neither lock keeps the other from being taken: a task about to take
\* the free cooperative lock can take it whoever holds the blocking lock, and
\* a thread about to take the free blocking lock can take it whoever holds
\* the cooperative lock.
C30_LocksIndependent ==
    \A t \in Threads :
        /\ (pc[t] = "aacquire" /\ async_lock = "free") => ENABLED AAcquire(t)
        /\ (pc[t] = "acquire" /\ lock = "free") => ENABLED Acquire(t)

\* a synchronized method of the thread and an asynchronous mutator of the
\* task, neither of which takes the other's lock, have both returned and the
\* key set of Order is not the key set of the mapping
C30_Witness ==
    /\ pc["t1"] = "idle"
    /\ loc["t1"].op \in Synchronized
    /\ loc["t1"].out = "ok"
    /\ pc["t2"] = "idle"
    /\ loc["t2"].surface = "async"
    /\ loc["t2"].op \in {"include", "update", "pop", "clear"}
    /\ loc["t2"].out = "ok"
    /\ Range(order) # Range(DictKeys(pile_))

----------------------------------------------------------------------------
(* Properties of lock acquisition (SpecLocks)                              *)

\* C36: no call goes for a lock it holds, a call that takes both locks takes
\* the cooperative one first, and every call that has started returns or
\* raises.
C36_NoDeadlock ==
    /\ [](\A t \in Threads :
             /\ pc[t] = "acquire" => lock # t
             /\ pc[t] = "aacquire" => (async_lock # t /\ lock # t))
    /\ \A t \in Threads : (pc[t] # "idle") ~> (pc[t] = "idle")

\* the thread's pop from the body of its loop and the task's adump(clear=True)
\* have both returned, each having taken the blocking lock, and both locks
\* are free
C36_Witness ==
    /\ pc["t1"] = "idle"
    /\ loc["t1"].op = "loop_pop"
    /\ loc["t1"].out \in {"ok", "ItemNotFoundError"}
    /\ pc["t2"] = "idle"
    /\ loc["t2"].op = "dump_clear"
    /\ loc["t2"].out = "ok"
    /\ lock = "free"
    /\ async_lock = "free"

====
